---- MODULE Spec2Model ----
(***************************************************************************)
(* Model of cpp-matrix-playground: the Matrix value type that accumulates  *)
(* a flop count through operator+ / operator* (and += / *=), and           *)
(* calc_optimal_mult_order, the matrix-chain-order dynamic programme with  *)
(* its recursive renderer order_to_string.                                 *)
(*                                                                         *)
(* std::string is modelled as a sequence of one-character strings, so that *)
(* concatenation, to_string and the rendered expression are real text.     *)
(* C++ containers are 0-based; TLA+ sequences are 1-based, the DP tables   *)
(* are functions over 0..n-1.                                              *)
(***************************************************************************)
EXTENDS Integers, Sequences, FiniteSets, TLC

\* ------------------------------------------------------------------ bounds
\* largest row / column count of an input matrix (0 is a legal int)
MaxDim == 2
\* longest chain handed to calc_optimal_mult_order
MaxN == 4
\* most combining operations applied in one run of the Matrix algebra
MaxOps == 3
\* most matrices one block of checks declares
MaxArgs == 3

Dims == 0..MaxDim

\* std::numeric_limits<int>::max()
INT_MAX == 2147483647

\* ------------------------------------------------------------------ Matrix
\* private constructor Matrix(nrow, ncol, flops)
Matrix3(nrow, ncol, flops) == [nrow |-> nrow, ncol |-> ncol, flops |-> flops]

\* public constructor Matrix(nrow, ncol): delegates with flops 0
Matrix(nrow, ncol) == Matrix3(nrow, ncol, 0)

get_nrow(M) == M.nrow
get_ncol(M) == M.ncol
get_flops(M) == M.flops

\* a sum where the product of the dimensions belongs
calc_mat_add_flops_wrong(A, B) == get_nrow(A) + get_ncol(B)

\* calc_mat_add_flops: one operation per cell
calc_mat_add_flops(A, B) == get_nrow(A) * get_ncol(B)

\* the inner dimension and the result's column count exchanged
calc_mat_mult_flops_wrong(A, B) == get_nrow(A) * get_ncol(B) * (2 * get_ncol(A) - 1)

\* calc_mat_mult_flops
calc_mat_mult_flops(A, B) == get_nrow(A) * get_ncol(A) * (2 * get_ncol(B) - 1)

\* a value that stands where no Matrix was produced
NoMatrix == Matrix3(-1, -1, -1)

\* outcome of an expression: a returned value, or a thrown std::logic_error
Returned(M) == [thrown |-> FALSE, what |-> "", val |-> M]
Thrown(what) == [thrown |-> TRUE, what |-> what, val |-> NoMatrix]

\* throws only when both dimensions differ
operator_plus_lax(this, other) ==
    IF this.nrow # other.nrow /\ this.ncol # other.ncol
    THEN Thrown("add: dimensions do not match")
    ELSE Returned(Matrix3(this.nrow, this.ncol,
                          this.flops + other.flops + calc_mat_add_flops(this, other)))

\* a sum that forgets what the right operand had cost
operator_plus_drop_other(this, other) ==
    IF this.nrow # other.nrow \/ this.ncol # other.ncol
    THEN Thrown("add: dimensions do not match")
    ELSE Returned(Matrix3(this.nrow, this.ncol,
                          this.flops + calc_mat_add_flops(this, other)))

\* operator+ : same shape required, else std::logic_error
operator_plus(this, other) ==
    IF this.nrow # other.nrow \/ this.ncol # other.ncol
    THEN Thrown("add: dimensions do not match")
    ELSE Returned(Matrix3(this.nrow, this.ncol,
                          this.flops + other.flops + calc_mat_add_flops(this, other)))

\* a product that keeps the column count of its left operand
operator_mul_keep_cols(this, other) ==
    IF this.ncol # other.nrow
    THEN Thrown("mult: dimensions do not match")
    ELSE Returned(Matrix3(this.nrow, this.ncol,
                          this.flops + other.flops + calc_mat_mult_flops(this, other)))

\* operator* : inner dimensions must agree, else std::logic_error
operator_mul(this, other) ==
    IF this.ncol # other.nrow
    THEN Thrown("mult: dimensions do not match")
    ELSE Returned(Matrix3(this.nrow, other.ncol,
                          this.flops + other.flops + calc_mat_mult_flops(this, other)))

\* equality of the shapes alone
operator_eq_shape_only(this, other) ==
    /\ this.nrow = other.nrow
    /\ this.ncol = other.ncol

\* operator== : all three members
operator_eq(this, other) ==
    /\ this.nrow = other.nrow
    /\ this.ncol = other.ncol
    /\ this.flops = other.flops

\* ------------------------------------------- Matrix, the two-counter variant
\* private constructor Matrix(nrow, ncol, add_ops, mult_ops)
TwoCounterMatrix4(nrow, ncol, add_ops, mult_ops) ==
    [nrow |-> nrow, ncol |-> ncol, add_ops |-> add_ops, mult_ops |-> mult_ops]

\* public constructor Matrix(nrow, ncol): both counters 0
TwoCounterMatrix(nrow, ncol) == TwoCounterMatrix4(nrow, ncol, 0, 0)

\* get_flops of the two-counter variant
tc_get_flops(M) == M.add_ops + M.mult_ops

NoTwoCounterMatrix == TwoCounterMatrix4(-1, -1, -1, -1)
TcReturned(M) == [thrown |-> FALSE, what |-> "", val |-> M]
TcThrown(what) == [thrown |-> TRUE, what |-> what, val |-> NoTwoCounterMatrix]

\* operator+ of the two-counter variant
tc_operator_plus(this, other) ==
    IF this.nrow # other.nrow \/ this.ncol # other.ncol
    THEN TcThrown("dimensions do not match")
    ELSE TcReturned(TwoCounterMatrix4(this.nrow, this.ncol,
                        this.add_ops + other.add_ops + (this.nrow * this.ncol),
                        this.mult_ops + other.mult_ops))

\* the additions of a product counted per output cell: rows * cols2 * (cols - 1)
tc_operator_mul_percell(this, other) ==
    IF this.ncol # other.nrow
    THEN TcThrown("dimensions do not match")
    ELSE TcReturned(TwoCounterMatrix4(this.nrow, other.ncol,
                        this.add_ops + other.add_ops
                            + (this.nrow * other.ncol * (this.ncol - 1)),
                        this.mult_ops + other.mult_ops
                            + (this.nrow * this.ncol * other.ncol)))

\* operator* of the two-counter variant
tc_operator_mul(this, other) ==
    IF this.ncol # other.nrow
    THEN TcThrown("dimensions do not match")
    ELSE TcReturned(TwoCounterMatrix4(this.nrow, other.ncol,
                        this.add_ops + other.add_ops
                            + (this.nrow * this.ncol * (other.ncol - 1)),
                        this.mult_ops + other.mult_ops
                            + (this.nrow * this.ncol * other.ncol)))

\* ------------------------------------------------------------- std::string
\* a std::string is a sequence of one-character strings
Digits == <<"0", "1", "2", "3", "4", "5", "6", "7", "8", "9">>

\* std::to_string(int) for a non-negative int: its decimal digits
RECURSIVE to_string(_)
to_string(v) ==
    IF v < 10 THEN <<Digits[v + 1]>>
    ELSE to_string(v \div 10) \o <<Digits[(v % 10) + 1]>>

\* --------------------------------------------------- calc_optimal_mult_order
VARIABLES
    mats,        \* the initializer_list of matrices (1-based sequence)
    mat_names,   \* the initializer_list of names, possibly empty
    pc,          \* position of the call
    length,      \* loop variable of the outer loop
    i,           \* loop variable of the window loop
    k,           \* loop variable of the split loop
    min_cost,    \* n x n table, 0-based
    min_index,   \* n x n table, 0-based
    ret,         \* what the call handed back to its caller
    acc,         \* Matrix algebra: the caller's accumulator variable
    x,           \* Matrix algebra: the other operand
    res,         \* Matrix algebra: outcome of the last expression
    lastop,      \* Matrix algebra: the last expression and its operands
    nops,        \* Matrix algebra: combining operations applied so far
    args,        \* checks: the matrices a block of checks declares
    cmp,         \* checks: what the block computed from them
    frames,      \* interleaved calls: each call's arguments and locals
    tables,      \* interleaved calls: each call's min_cost / min_index
    ndebug       \* interleaved calls: the build has assertions disabled

optVars == <<mats, mat_names, pc, length, i, k, min_cost, min_index, ret>>
algVars == <<acc, x, res, lastop, nops>>
chkVars == <<args, cmp>>
conVars == <<frames, tables, ndebug>>
vars == <<mats, mat_names, pc, length, i, k, min_cost, min_index, ret,
          acc, x, res, lastop, nops, args, cmp, frames, tables, ndebug>>

\* mats.size()
n == Len(mats)

\* the lambda get_mat: *(mats.begin() + i)
get_mat(idx) == mats[idx + 1]

\* j = i + length - 1
j == i + length - 1

\* what the caller gets back
NoReturn == [kind |-> "none", first |-> <<>>, second |-> 0]
ReturnPair(first, second) == [kind |-> "value", first |-> first, second |-> second]
ThrowLogicError == [kind |-> "logic_error", first |-> <<>>, second |-> 0]
Aborted == [kind |-> "abort", first |-> <<>>, second |-> 0]

\* synthesized labels counted from 0
LeafLabelZeroBased(names, idx) ==
    IF Len(names) # 0 THEN names[idx + 1] ELSE <<"M">> \o to_string(idx)

\* mat_names.size() ? *(mat_names.begin() + i) : "M" + to_string(i + 1)
LeafLabel(names, idx) ==
    IF Len(names) # 0 THEN names[idx + 1] ELSE <<"M">> \o to_string(idx + 1)

\* renders the strictly left-to-right grouping, whatever the table says
RECURSIVE order_to_string_leftfold(_, _, _, _)
order_to_string_leftfold(index, lo, hi, names) ==
    IF lo = hi
    THEN LeafLabel(names, lo)
    ELSE <<"(">> \o order_to_string_leftfold(index, lo, hi - 1, names)
         \o <<" ", "*", " ">>
         \o LeafLabel(names, hi)
         \o <<")">>

RECURSIVE order_to_string(_, _, _, _)
order_to_string(index, lo, hi, names) ==
    IF lo = hi
    THEN LeafLabel(names, lo)
    ELSE <<"(">> \o order_to_string(index, lo, index[lo][hi], names)
         \o <<" ", "*", " ">>
         \o order_to_string(index, index[lo][hi] + 1, hi, names)
         \o <<")">>

\* for_each_adjacent_pair with the lambda's condition: every adjacent pair
\* of the chain satisfies m1.get_ncol() == m2.get_nrow()
AdjacentOk(ms) ==
    \A p \in 1..(Len(ms) - 1) : get_ncol(ms[p]) = get_nrow(ms[p + 1])

\* the split cost with the dimensions of kk and hi exchanged
SplitCostShifted(lo, kk, hi) ==
    min_cost[lo][kk] + min_cost[kk + 1][hi] +
    get_nrow(get_mat(lo)) * get_ncol(get_mat(hi)) * (2 * get_ncol(get_mat(kk)) - 1)

\* the candidate cost of splitting window [lo, hi] at kk
SplitCost(lo, kk, hi) ==
    min_cost[lo][kk] + min_cost[kk + 1][hi] +
    get_nrow(get_mat(lo)) * get_ncol(get_mat(kk)) * (2 * get_ncol(get_mat(hi)) - 1)

\* a table whose entries start at 1 instead of 0
OnesTable(sz) == [a \in 0..(sz - 1) |-> [b \in 0..(sz - 1) |-> 1]]

\* std::vector<std::vector<int>>(n, std::vector<int>(n)): all zero
ZeroTable(sz) == [a \in 0..(sz - 1) |-> [b \in 0..(sz - 1) |-> 0]]

\* the size check without its "names given" part
CheckSizesStrict ==
    /\ pc = "check_sizes"
    /\ IF Len(mat_names) # Len(mats)
       THEN /\ ret' = ThrowLogicError
            /\ pc' = "done"
       ELSE IF Len(mats) = 0
            THEN /\ ret' = ReturnPair(<<>>, 0)
                 /\ pc' = "done"
            ELSE /\ ret' = ret
                 /\ pc' = "check_adjacent"
    /\ UNCHANGED <<mats, mat_names, length, i, k, min_cost, min_index>>
    /\ UNCHANGED <<algVars, chkVars, conVars>>

\* the size checks with the empty chain treated as an error
CheckSizesEmptyThrows ==
    /\ pc = "check_sizes"
    /\ IF (Len(mat_names) # 0 /\ Len(mat_names) # Len(mats)) \/ Len(mats) = 0
       THEN /\ ret' = ThrowLogicError
            /\ pc' = "done"
       ELSE /\ ret' = ret
            /\ pc' = "check_adjacent"
    /\ UNCHANGED <<mats, mat_names, length, i, k, min_cost, min_index>>
    /\ UNCHANGED <<algVars, chkVars, conVars>>

\* the two size checks at the head of the call
CheckSizes ==
    /\ pc = "check_sizes"
    /\ IF Len(mat_names) # 0 /\ Len(mat_names) # Len(mats)
       THEN /\ ret' = ThrowLogicError
            /\ pc' = "done"
       ELSE IF Len(mats) = 0
            THEN /\ ret' = ReturnPair(<<>>, 0)
                 /\ pc' = "done"
            ELSE /\ ret' = ret
                 /\ pc' = "check_adjacent"
    /\ UNCHANGED <<mats, mat_names, length, i, k, min_cost, min_index>>
    /\ UNCHANGED <<algVars, chkVars, conVars>>

\* the tables are allocated and the outer loop starts at length 2
EnterLoops ==
    /\ min_cost' = ZeroTable(n)
    /\ min_index' = ZeroTable(n)
    /\ length' = 2
    /\ pc' = "length_loop"
    /\ UNCHANGED <<mats, mat_names, i, k, ret>>

\* the adjacency assert holds: go on
CheckAdjacentPass ==
    /\ pc = "check_adjacent"
    /\ AdjacentOk(mats)
    /\ EnterLoops
    /\ UNCHANGED <<algVars, chkVars, conVars>>

\* the adjacency assert fails in a build with assertions: abort()
CheckAdjacentAbort ==
    /\ pc = "check_adjacent"
    /\ ~AdjacentOk(mats)
    /\ ret' = Aborted
    /\ pc' = "aborted"
    /\ UNCHANGED <<mats, mat_names, length, i, k, min_cost, min_index>>
    /\ UNCHANGED <<algVars, chkVars, conVars>>

\* the adjacency condition is false in a build with NDEBUG: assert expands
\* to nothing and the call goes on
CheckAdjacentNDEBUG ==
    /\ pc = "check_adjacent"
    /\ ~AdjacentOk(mats)
    /\ EnterLoops
    /\ UNCHANGED <<algVars, chkVars, conVars>>

\* the outer loop leaving one length early
LengthLoopEarlyRender ==
    /\ pc = "length_loop"
    /\ IF length < n
       THEN /\ i' = 0
            /\ pc' = "i_loop"
       ELSE /\ i' = i
            /\ pc' = "render"
    /\ UNCHANGED <<mats, mat_names, length, k, min_cost, min_index, ret>>
    /\ UNCHANGED <<algVars, chkVars, conVars>>

\* for (length = 2; length < n + 1; length++)
LengthLoop ==
    /\ pc = "length_loop"
    /\ IF length < n + 1
       THEN /\ i' = 0
            /\ pc' = "i_loop"
       ELSE /\ i' = i
            /\ pc' = "render"
    /\ UNCHANGED <<mats, mat_names, length, k, min_cost, min_index, ret>>
    /\ UNCHANGED <<algVars, chkVars, conVars>>

\* the window loop without the assignment of the sentinel
IndexLoopNoSentinel ==
    /\ pc = "i_loop"
    /\ IF i < n - length + 1
       THEN /\ k' = i
            /\ length' = length
            /\ pc' = "k_loop"
            /\ UNCHANGED min_cost
       ELSE /\ length' = length + 1
            /\ pc' = "length_loop"
            /\ UNCHANGED <<min_cost, k>>
    /\ UNCHANGED <<mats, mat_names, i, min_index, ret>>
    /\ UNCHANGED <<algVars, chkVars, conVars>>

\* the window loop handing back to the outer loop without length++
IndexLoopNoAdvance ==
    /\ pc = "i_loop"
    /\ IF i < n - length + 1
       THEN /\ min_cost' = [min_cost EXCEPT ![i][j] = INT_MAX]
            /\ k' = i
            /\ length' = length
            /\ pc' = "k_loop"
       ELSE /\ length' = length
            /\ pc' = "length_loop"
            /\ UNCHANGED <<min_cost, k>>
    /\ UNCHANGED <<mats, mat_names, i, min_index, ret>>
    /\ UNCHANGED <<algVars, chkVars, conVars>>

\* for (i = 0; i < n - length + 1; i++) { j = ...; min_cost[i][j] = INT_MAX;
IndexLoop ==
    /\ pc = "i_loop"
    /\ IF i < n - length + 1
       THEN /\ min_cost' = [min_cost EXCEPT ![i][j] = INT_MAX]
            /\ k' = i
            /\ length' = length
            /\ pc' = "k_loop"
       ELSE /\ length' = length + 1
            /\ pc' = "length_loop"
            /\ UNCHANGED <<min_cost, k>>
    /\ UNCHANGED <<mats, mat_names, i, min_index, ret>>
    /\ UNCHANGED <<algVars, chkVars, conVars>>

\* the split loop keeping only its first candidate
SplitLoopFirstOnly ==
    /\ pc = "k_loop"
    /\ IF k < j
       THEN /\ LET cost == SplitCost(i, k, j) IN
               IF k = i
               THEN /\ min_cost' = [min_cost EXCEPT ![i][j] = cost]
                    /\ min_index' = [min_index EXCEPT ![i][j] = k]
               ELSE UNCHANGED <<min_cost, min_index>>
            /\ k' = k + 1
            /\ UNCHANGED <<i, pc>>
       ELSE /\ i' = i + 1
            /\ pc' = "i_loop"
            /\ UNCHANGED <<k, min_cost, min_index>>
    /\ UNCHANGED <<mats, mat_names, length, ret>>
    /\ UNCHANGED <<algVars, chkVars, conVars>>

\* the split loop comparing with <= : a later split of equal cost wins
SplitLoopKeepLast ==
    /\ pc = "k_loop"
    /\ IF k < j
       THEN /\ LET cost == SplitCost(i, k, j) IN
               IF cost <= min_cost[i][j]
               THEN /\ min_cost' = [min_cost EXCEPT ![i][j] = cost]
                    /\ min_index' = [min_index EXCEPT ![i][j] = k]
               ELSE UNCHANGED <<min_cost, min_index>>
            /\ k' = k + 1
            /\ UNCHANGED <<i, pc>>
       ELSE /\ i' = i + 1
            /\ pc' = "i_loop"
            /\ UNCHANGED <<k, min_cost, min_index>>
    /\ UNCHANGED <<mats, mat_names, length, ret>>
    /\ UNCHANGED <<algVars, chkVars, conVars>>

\* for (k = i; k < j; k++) { cost = ...; if (cost < min_cost[i][j]) ... }
SplitLoop ==
    /\ pc = "k_loop"
    /\ IF k < j
       THEN /\ LET cost == SplitCost(i, k, j) IN
               IF cost < min_cost[i][j]
               THEN /\ min_cost' = [min_cost EXCEPT ![i][j] = cost]
                    /\ min_index' = [min_index EXCEPT ![i][j] = k]
               ELSE UNCHANGED <<min_cost, min_index>>
            /\ k' = k + 1
            /\ UNCHANGED <<i, pc>>
       ELSE /\ i' = i + 1
            /\ pc' = "i_loop"
            /\ UNCHANGED <<k, min_cost, min_index>>
    /\ UNCHANGED <<mats, mat_names, length, ret>>
    /\ UNCHANGED <<algVars, chkVars, conVars>>

\* opt_order = order_to_string(min_index, 0, n - 1, mat_names);
\* opt_flops = min_cost[0][n - 1]; return {opt_order, opt_flops};
Render ==
    /\ pc = "render"
    /\ ret' = ReturnPair(order_to_string(min_index, 0, n - 1, mat_names),
                         min_cost[0][n - 1])
    /\ pc' = "done"
    /\ UNCHANGED <<mats, mat_names, length, i, k, min_cost, min_index>>
    /\ UNCHANGED <<algVars, chkVars, conVars>>

\* --------------------------------------------------------- the Matrix algebra
\* += that assigns whatever came out, also after a throw
operator_plus_assign_clobber(this, other) ==
    LET r == operator_plus(this, other) IN
    [self |-> r.val, out |-> r]

\* operator+= : *this = this->operator+(other); a throw leaves *this alone
operator_plus_assign(this, other) ==
    LET r == operator_plus(this, other) IN
    [self |-> IF r.thrown THEN this ELSE r.val, out |-> r]

\* *= with the operands of the product exchanged
operator_mul_assign_swapped(this, other) ==
    LET r == operator_mul(other, this) IN
    [self |-> IF r.thrown THEN this ELSE r.val, out |-> r]

\* operator*= : *this = this->operator*(other); a throw leaves *this alone
operator_mul_assign(this, other) ==
    LET r == operator_mul(this, other) IN
    [self |-> IF r.thrown THEN this ELSE r.val, out |-> r]

\* outcome of a fold over a list of operands: what came out, and the
\* 1-based place of the operand at which it threw (0 when it did not)
FoldOutcome(out, at) == [out |-> out, at |-> at]

\* for (it = mats.begin() + 1; it != mats.end(); it++) res += *it;
RECURSIVE plus_assign_loop(_, _, _)
plus_assign_loop(r, ms, it) ==
    IF it > Len(ms) THEN FoldOutcome(Returned(r), 0)
    ELSE LET s == operator_plus_assign(r, ms[it]) IN
         IF s.out.thrown THEN FoldOutcome(s.out, it)
         ELSE plus_assign_loop(s.self, ms, it + 1)

\* for (it = mats.begin() + 1; it != mats.end(); it++) res *= *it;
RECURSIVE mul_assign_loop(_, _, _)
mul_assign_loop(r, ms, it) ==
    IF it > Len(ms) THEN FoldOutcome(Returned(r), 0)
    ELSE LET s == operator_mul_assign(r, ms[it]) IN
         IF s.out.thrown THEN FoldOutcome(s.out, it)
         ELSE mul_assign_loop(s.self, ms, it + 1)

\* sum_using_initializer_list
sum_using_initializer_list(ms) ==
    IF Len(ms) = 0 THEN FoldOutcome(Thrown("no input mat"), 0)
    ELSE plus_assign_loop(ms[1], ms, 2)

\* product_using_initializer_list
product_using_initializer_list(ms) ==
    IF Len(ms) = 0 THEN FoldOutcome(Thrown("no input mat"), 0)
    ELSE mul_assign_loop(ms[1], ms, 2)

\* sum_using_fold_expression: (... + args), that is ((arg1 + arg2) + arg3) + ...
\* over a pack of at least one argument
RECURSIVE sum_using_fold_expression(_)
sum_using_fold_expression(ms) ==
    IF Len(ms) = 1 THEN FoldOutcome(Returned(ms[1]), 0)
    ELSE LET l == sum_using_fold_expression(SubSeq(ms, 1, Len(ms) - 1)) IN
         IF l.out.thrown THEN l
         ELSE LET r == operator_plus(l.out.val, ms[Len(ms)]) IN
              FoldOutcome(r, IF r.thrown THEN Len(ms) ELSE 0)

\* product_using_fold_expression: (... * args)
RECURSIVE product_using_fold_expression(_)
product_using_fold_expression(ms) ==
    IF Len(ms) = 1 THEN FoldOutcome(Returned(ms[1]), 0)
    ELSE LET l == product_using_fold_expression(SubSeq(ms, 1, Len(ms) - 1)) IN
         IF l.out.thrown THEN l
         ELSE LET r == operator_mul(l.out.val, ms[Len(ms)]) IN
              FoldOutcome(r, IF r.thrown THEN Len(ms) ELSE 0)

NoOp == [op |-> "none", a |-> NoMatrix, b |-> NoMatrix]

\* Matrix x(r, c): a freshly constructed operand
Construct ==
    /\ \E r \in Dims, c \in Dims : x' = Matrix(r, c)
    /\ UNCHANGED <<acc, res, lastop, nops>>
    /\ UNCHANGED <<optVars, chkVars, conVars>>

\* the value of the last expression is used as the next operand
UseResult ==
    /\ lastop.op # "none"
    /\ ~res.thrown
    /\ x' = res.val
    /\ UNCHANGED <<acc, res, lastop, nops>>
    /\ UNCHANGED <<optVars, chkVars, conVars>>

\* acc + x
Plus ==
    /\ nops < MaxOps
    /\ res' = operator_plus(acc, x)
    /\ lastop' = [op |-> "+", a |-> acc, b |-> x]
    /\ nops' = nops + 1
    /\ UNCHANGED <<acc, x>>
    /\ UNCHANGED <<optVars, chkVars, conVars>>

\* acc * x
Times ==
    /\ nops < MaxOps
    /\ res' = operator_mul(acc, x)
    /\ lastop' = [op |-> "*", a |-> acc, b |-> x]
    /\ nops' = nops + 1
    /\ UNCHANGED <<acc, x>>
    /\ UNCHANGED <<optVars, chkVars, conVars>>

\* acc += x
PlusAssign ==
    /\ nops < MaxOps
    /\ LET r == operator_plus_assign(acc, x) IN
          /\ acc' = r.self
          /\ res' = r.out
    /\ lastop' = [op |-> "+=", a |-> acc, b |-> x]
    /\ nops' = nops + 1
    /\ UNCHANGED x
    /\ UNCHANGED <<optVars, chkVars, conVars>>

\* acc *= x
TimesAssign ==
    /\ nops < MaxOps
    /\ LET r == operator_mul_assign(acc, x) IN
          /\ acc' = r.self
          /\ res' = r.out
    /\ lastop' = [op |-> "*=", a |-> acc, b |-> x]
    /\ nops' = nops + 1
    /\ UNCHANGED x
    /\ UNCHANGED <<optVars, chkVars, conVars>>

\* ------------------------------------- calc_optimal_mult_order as one value
\* The same call written over a frame (its arguments, locals and result)
\* and the pair of tables it allocates, one source step at a time.
StartFrame(ms, names) ==
    [mats |-> ms, mat_names |-> names, pc |-> "check_sizes",
     length |-> 0, i |-> 0, k |-> 0, ret |-> NoReturn]

\* no vectors allocated yet
NoTables == [min_cost |-> <<>>, min_index |-> <<>>]

\* a split cost that also counts what the matrices at the ends of the
\* window had cost before the call
call_cost_with_flops(f, t) ==
    LET jj == f.i + f.length - 1 IN
    t.min_cost[f.i][f.k] + t.min_cost[f.k + 1][jj] +
    get_flops(f.mats[f.i + 1]) + get_flops(f.mats[jj + 1]) +
    get_nrow(f.mats[f.i + 1]) * get_ncol(f.mats[f.k + 1])
        * (2 * get_ncol(f.mats[jj + 1]) - 1)

\* cost of splitting the frame's window [i, j] at k, read from its tables
call_cost(f, t) ==
    LET jj == f.i + f.length - 1 IN
    t.min_cost[f.i][f.k] + t.min_cost[f.k + 1][jj] +
    get_nrow(f.mats[f.i + 1]) * get_ncol(f.mats[f.k + 1])
        * (2 * get_ncol(f.mats[jj + 1]) - 1)

\* one step of the call: the frame and the tables after it; nd says whether
\* the build defines NDEBUG
call_step(f, t, nd) ==
    LET sz == Len(f.mats)
        jj == f.i + f.length - 1
    IN
    CASE f.pc = "check_sizes" ->
           [t |-> t,
            f |-> IF Len(f.mat_names) # 0 /\ Len(f.mat_names) # sz
                  THEN [f EXCEPT !.ret = ThrowLogicError, !.pc = "done"]
                  ELSE IF sz = 0
                       THEN [f EXCEPT !.ret = ReturnPair(<<>>, 0), !.pc = "done"]
                       ELSE [f EXCEPT !.pc = "check_adjacent"]]
      [] f.pc = "check_adjacent" ->
           IF AdjacentOk(f.mats) \/ nd
           THEN [t |-> [min_cost |-> ZeroTable(sz), min_index |-> ZeroTable(sz)],
                 f |-> [f EXCEPT !.length = 2, !.pc = "length_loop"]]
           ELSE [t |-> t, f |-> [f EXCEPT !.ret = Aborted, !.pc = "aborted"]]
      [] f.pc = "length_loop" ->
           [t |-> t,
            f |-> IF f.length < sz + 1
                  THEN [f EXCEPT !.i = 0, !.pc = "i_loop"]
                  ELSE [f EXCEPT !.pc = "render"]]
      [] f.pc = "i_loop" ->
           IF f.i < sz - f.length + 1
           THEN [t |-> [t EXCEPT !.min_cost[f.i][jj] = INT_MAX],
                 f |-> [f EXCEPT !.k = f.i, !.pc = "k_loop"]]
           ELSE [t |-> t, f |-> [f EXCEPT !.length = f.length + 1, !.pc = "length_loop"]]
      [] f.pc = "k_loop" ->
           IF f.k < jj
           THEN [t |-> IF call_cost(f, t) < t.min_cost[f.i][jj]
                       THEN [t EXCEPT !.min_cost[f.i][jj] = call_cost(f, t),
                                      !.min_index[f.i][jj] = f.k]
                       ELSE t,
                 f |-> [f EXCEPT !.k = f.k + 1]]
           ELSE [t |-> t, f |-> [f EXCEPT !.i = f.i + 1, !.pc = "i_loop"]]
      [] f.pc = "render" ->
           [t |-> t,
            f |-> [f EXCEPT !.ret = ReturnPair(order_to_string(t.min_index, 0, sz - 1,
                                                               f.mat_names),
                                               t.min_cost[0][sz - 1]),
                            !.pc = "done"]]
      [] OTHER -> [t |-> t, f |-> f]

\* the call run from its first step to its end, nothing else running
RECURSIVE run_call(_, _, _)
run_call(f, t, nd) ==
    IF f.pc \in {"done", "aborted"}
    THEN f.ret
    ELSE LET s == call_step(f, t, nd) IN run_call(s.f, s.t, nd)

\* calc_optimal_mult_order(mats, mat_names): what the caller gets back
calc_optimal_mult_order(ms, names, nd) == run_call(StartFrame(ms, names), NoTables, nd)

\* the ids of the calls in flight
CallIds == {1, 2}

\* a cache of tables kept per chain length and shared by the calls
store_tables_cached(ts, id, t) ==
    [c \in DOMAIN ts |->
        IF c = id \/ DOMAIN ts[c].min_cost = DOMAIN t.min_cost THEN t ELSE ts[c]]

\* min_cost and min_index are local vectors: a step writes the tables of
\* its own call only
store_tables(ts, id, t) == [ts EXCEPT ![id] = t]

\* abort() ended the process
ProcessAborted == \E id \in CallIds : frames[id].pc = "aborted"

\* call id takes its next step, whatever the other calls are doing
CallStep(id) ==
    /\ ~ProcessAborted
    /\ frames[id].pc # "done"
    /\ LET s == call_step(frames[id], tables[id], ndebug) IN
          /\ frames' = [frames EXCEPT ![id] = s.f]
          /\ tables' = store_tables(tables, id, s.t)
    /\ UNCHANGED ndebug
    /\ UNCHANGED <<optVars, algVars, chkVars>>

\* ------------------------------------------------------------ specifications
\* dimensions of the matrices of a chain
ChainDims == 1..MaxDim

\* chains whose adjacent shapes agree: matrix p is d[p-1] x d[p]
ValidChains(len) ==
    { [p \in 1..len |-> Matrix(d[p - 1], d[p])] : d \in [0..len -> ChainDims] }

\* chains with one adjacency broken: the row count of matrix b is off
BrokenChains(len) ==
    { [c EXCEPT ![b] = Matrix(r, c[b].ncol)] :
        <<c, b, r>> \in { t \in ValidChains(len) \X (2..len) \X ChainDims :
                            t[3] # t[1][t[2]].nrow } }

Chains == {<<>>} \cup UNION { ValidChains(len) \cup BrokenChains(len) : len \in 1..MaxN }

Letters == <<"A", "B", "C", "D", "E", "F", "G", "H">>

\* the caller's name of matrix p (1-based)
NameOf(p) == IF p <= Len(Letters) THEN <<Letters[p]>> ELSE <<"N">> \o to_string(p)

Names(len) == [p \in 1..len |-> NameOf(p)]

\* no names, one name per matrix, or a list of another length
NameChoices(len) ==
    {<<>>, Names(len), Names(len + 1)} \cup (IF len > 0 THEN {Names(len - 1)} ELSE {})

ChkIdle ==
    /\ args = <<>>
    /\ cmp = [kind |-> "none"]

ConIdle ==
    /\ frames = <<>>
    /\ tables = <<>>
    /\ ndebug = FALSE

AlgIdle ==
    /\ acc = Matrix(0, 0)
    /\ x = Matrix(0, 0)
    /\ res = Returned(NoMatrix)
    /\ lastop = NoOp
    /\ nops = 0

OptIdle ==
    /\ mats = <<>>
    /\ mat_names = <<>>
    /\ pc = "idle"
    /\ length = 0
    /\ i = 0
    /\ k = 0
    /\ min_cost = <<>>
    /\ min_index = <<>>
    /\ ret = NoReturn

\* a call of calc_optimal_mult_order(mats, mat_names)
Init ==
    /\ mats \in Chains
    /\ mat_names \in NameChoices(Len(mats))
    /\ pc = "check_sizes"
    /\ length = 0
    /\ i = 0
    /\ k = 0
    /\ min_cost = <<>>
    /\ min_index = <<>>
    /\ ret = NoReturn
    /\ AlgIdle
    /\ ChkIdle
    /\ ConIdle

Next ==
    \/ CheckSizes
    \/ CheckAdjacentPass
    \/ CheckAdjacentAbort
    \/ CheckAdjacentNDEBUG
    \/ LengthLoop
    \/ IndexLoop
    \/ SplitLoop
    \/ Render

Spec == Init /\ [][Next]_vars

\* a caller that builds Matrix values and combines them
InitMatrix ==
    /\ \E r \in Dims, c \in Dims : acc = Matrix(r, c)
    /\ \E r \in Dims, c \in Dims : x = Matrix(r, c)
    /\ res = Returned(NoMatrix)
    /\ lastop = NoOp
    /\ nops = 0
    /\ OptIdle
    /\ ChkIdle
    /\ ConIdle

NextMatrix ==
    \/ Construct
    \/ UseResult
    \/ Plus
    \/ Times
    \/ PlusAssign
    \/ TimesAssign

SpecMatrix == InitMatrix /\ [][NextMatrix]_vars

\* the calls that compile_time_checks, run_time_checks and main make or
\* could make on the matrices they declare: <<mats, mat_names>>
CallInputs ==
    LET A == Matrix(40, 20)
        B == Matrix(20, 30)
        C == Matrix(30, 10)
        D == Matrix(10, 30)
    IN  { <<<<>>, <<>>>>,
          <<<<A>>, Names(1)>>,
          <<<<A, B>>, Names(2)>>,
          <<<<A, B, C>>, Names(3)>>,
          <<<<A, B, C, D>>, Names(4)>>,
          <<<<A, B, C, D>>, <<>>>>,
          <<<<Matrix(2, 5), Matrix(5, 10), Matrix(10, 3), Matrix(3, 8)>>, <<>>>>,
          <<<<Matrix(2, 5), Matrix(5, 3), Matrix(3, 10)>>, <<>>>>,
          <<<<Matrix(2, 5), Matrix(4, 10)>>, <<>>>>,
          <<<<A, B>>, Names(1)>> }

\* independent callers, each in its own call, in a build with or without
\* assertions
InitInterleaved ==
    /\ \E inp \in [CallIds -> CallInputs] :
          frames = [id \in CallIds |-> StartFrame(inp[id][1], inp[id][2])]
    /\ tables = [id \in CallIds |-> NoTables]
    /\ ndebug \in BOOLEAN
    /\ OptIdle
    /\ AlgIdle
    /\ ChkIdle

NextInterleaved == \E id \in CallIds : CallStep(id)

SpecInterleaved == InitInterleaved /\ [][NextInterleaved]_vars

\* ------------------------------------------------- reading an expression back
\* The rendered text is read back by a recursive-descent parser for
\*   expr ::= label | "(" expr " * " expr ")"
\* which yields the leaf positions in order, the value obtained by
\* multiplying the matrices with operator* exactly as the text groups them,
\* the windows <<first leaf, last leaf>> of its parenthesized groups and the
\* texts of its labels.
IsLabelChar(ch) == ch \notin {"(", ")", " ", "*"}

RECURSIVE LabelEnd(_, _)
LabelEnd(s, p) == IF p <= Len(s) /\ IsLabelChar(s[p]) THEN LabelEnd(s, p + 1) ELSE p

IsDigit(ch) == \E d \in 1..10 : Digits[d] = ch
DigitValue(ch) == (CHOOSE d \in 1..10 : Digits[d] = ch) - 1

RECURSIVE Decimal(_)
Decimal(ds) ==
    IF Len(ds) = 1 THEN DigitValue(ds[1])
    ELSE 10 * Decimal(SubSeq(ds, 1, Len(ds) - 1)) + DigitValue(ds[Len(ds)])

\* the 0-based position a label stands for, -1 when it stands for none
LabelPosition(tok, names) ==
    IF Len(names) # 0
    THEN IF \E q \in 1..Len(names) : names[q] = tok
         THEN (CHOOSE q \in 1..Len(names) : names[q] = tok) - 1
         ELSE -1
    ELSE IF Len(tok) >= 2 /\ tok[1] = "M" /\ \A q \in 2..Len(tok) : IsDigit(tok[q])
         THEN Decimal(Tail(tok)) - 1
         ELSE -1

ParseFail ==
    [ok |-> FALSE, next |-> 0, leaves |-> <<>>, val |-> Thrown("parse"),
     spans |-> {}, labels |-> <<>>]

RECURSIVE ParseExpr(_, _, _, _)
ParseExpr(s, p, ms, names) ==
    IF p > Len(s) THEN ParseFail
    ELSE IF s[p] = "("
    THEN LET l == ParseExpr(s, p + 1, ms, names) IN
         IF ~l.ok \/ l.next + 2 > Len(s) \/ SubSeq(s, l.next, l.next + 2) # <<" ", "*", " ">>
         THEN ParseFail
         ELSE LET r == ParseExpr(s, l.next + 3, ms, names) IN
              IF ~r.ok \/ r.next > Len(s) \/ s[r.next] # ")"
              THEN ParseFail
              ELSE [ok |-> TRUE, next |-> r.next + 1, leaves |-> l.leaves \o r.leaves,
                    val |-> IF l.val.thrown THEN l.val
                            ELSE IF r.val.thrown THEN r.val
                            ELSE operator_mul(l.val.val, r.val.val),
                    spans |-> l.spans \cup r.spans
                              \cup {<<l.leaves[1], r.leaves[Len(r.leaves)]>>},
                    labels |-> l.labels \o r.labels]
    ELSE LET e == LabelEnd(s, p)
             q == IF e = p THEN -1 ELSE LabelPosition(SubSeq(s, p, e - 1), names)
         IN  IF q < 0 \/ q >= Len(ms)
             THEN ParseFail
             ELSE [ok |-> TRUE, next |-> e, leaves |-> <<q>>, val |-> Returned(ms[q + 1]),
                   spans |-> {}, labels |-> <<SubSeq(s, p, e - 1)>>]

\* the whole text read as one expression
ReadBack(s, ms, names) ==
    LET e == ParseExpr(s, 1, ms, names) IN
    IF e.ok /\ e.next = Len(s) + 1 THEN e ELSE ParseFail

\* number of positions of s that hold ch
CountChar(s, ch) == Cardinality({p \in 1..Len(s) : s[p] = ch})

\* number of occurrences of the three characters " * " in s
CountTimesToken(s) ==
    Cardinality({p \in 1..(Len(s) - 2) : SubSeq(s, p, p + 2) = <<" ", "*", " ">>})

\* the call returned a pair for a chain of at least one matrix that
\* satisfies the adjacency condition
ReturnedForValidChain ==
    /\ pc = "done"
    /\ ret.kind = "value"
    /\ n >= 1
    /\ AdjacentOk(mats)

\* every matrix of the chain is freshly constructed
AllFresh == \A p \in 1..n : get_flops(mats[p]) = 0

\* ------------------------------------------------------------------- C1
\* one product of an (r x c) by a (c x p) operand costs r*c*(2*p-1)
ChainProduct(a, b) ==
    [r |-> a.r, c |-> b.c, cost |-> a.cost + b.cost + a.r * a.c * (2 * b.c - 1)]

\* the products of all full parenthesizations of ms[lo..hi]
RECURSIVE AllParenthesizations(_, _, _)
AllParenthesizations(ms, lo, hi) ==
    IF lo = hi
    THEN {[r |-> ms[lo].nrow, c |-> ms[lo].ncol, cost |-> 0]}
    ELSE UNION { { ChainProduct(a, b) : a \in AllParenthesizations(ms, lo, m),
                                        b \in AllParenthesizations(ms, m + 1, hi) }
                 : m \in lo..(hi - 1) }

AllCosts(ms) == { t.cost : t \in AllParenthesizations(ms, 1, Len(ms)) }

MinOf(S) == CHOOSE v \in S : \A w \in S : v <= w

\* C1: for every chain of n >= 1 shapes with c_i = r_{i+1}, the cost that
\* calc_optimal_mult_order returns is the minimum, over all full
\* parenthesizations of the chain, of the total cost of the products.
C1_CostIsMinimumOverAllParenthesizations ==
    ReturnedForValidChain => ret.second = MinOf(AllCosts(mats))

\* a chain of four matrices whose parenthesizations do not all cost the same
C1_Witness ==
    /\ ReturnedForValidChain
    /\ n >= 4
    /\ Cardinality(AllCosts(mats)) >= 3
    /\ ret.second = MinOf(AllCosts(mats))

\* ------------------------------------------------------------------- C2
\* C2: for every valid chain of freshly constructed matrices, multiplying
\* the matrices with operator* exactly as the returned expression is
\* parenthesized gives a value whose flops equal the returned cost.
C2_ExpressionEvaluatesToMinCost ==
    (ReturnedForValidChain /\ AllFresh) =>
        LET e == ReadBack(ret.first, mats, mat_names) IN
        /\ e.ok
        /\ ~e.val.thrown
        /\ get_flops(e.val.val) = ret.second

\* an expression whose outermost split is not the last one was evaluated
\* and cost something
C2_Witness ==
    /\ ReturnedForValidChain /\ AllFresh
    /\ n >= 3
    /\ min_index[0][n - 1] < n - 2
    /\ LET e == ReadBack(ret.first, mats, mat_names) IN
          e.ok /\ ~e.val.thrown /\ get_flops(e.val.val) = ret.second /\ ret.second > 0

\* ------------------------------------------------------------------- C10
\* C10: for every valid chain of n >= 1 matrices the returned expression is
\* a well-formed fully parenthesized binary expression whose leaves are the
\* input positions 0..n-1, each once and in the original order, with exactly
\* n-1 operator tokens " * " and exactly n-1 pairs of parentheses.
C10_ExpressionWellFormed ==
    ReturnedForValidChain =>
        LET e == ReadBack(ret.first, mats, mat_names) IN
        /\ e.ok
        /\ e.leaves = [p \in 1..n |-> p - 1]
        /\ CountTimesToken(ret.first) = n - 1
        /\ CountChar(ret.first, "(") = n - 1
        /\ CountChar(ret.first, ")") = n - 1

\* a rendered expression over four matrices that is not the left-to-right one
C10_Witness ==
    /\ ReturnedForValidChain
    /\ n >= 4
    /\ min_index[0][n - 1] < n - 2
    /\ ReadBack(ret.first, mats, mat_names).leaves = [p \in 1..n |-> p - 1]

\* ------------------------------------------------------------------- C8
\* the size checks let the call through
SizesOk == Len(mat_names) = 0 \/ Len(mat_names) = Len(mats)

\* C8: when a chain violates adjacency the call signals a recoverable
\* InvalidArgument error to its caller: it neither returns a pair computed
\* from the malformed chain nor terminates the process.
C8_BrokenChainSignalsInvalidArgument ==
    (SizesOk /\ ~AdjacentOk(mats) /\ pc \in {"done", "aborted"}) =>
        ret.kind = "logic_error"

\* ------------------------------------------------------------------- C9
\* C9: whenever names is non-empty and its length differs from the number
\* of matrices (also when there are no matrices), the call fails with
\* InvalidArgument before any table is built and returns no pair; when names
\* is empty or as long as the chain the check never fails.
C9_NamesLengthCheck ==
    /\ (~SizesOk /\ pc # "check_sizes") =>
          /\ pc = "done"
          /\ ret = ThrowLogicError
          /\ min_cost = <<>>
          /\ min_index = <<>>
    /\ SizesOk => ret.kind # "logic_error"

\* the check failed for an empty chain that came with one name
C9_Witness ==
    /\ ~SizesOk
    /\ pc = "done"
    /\ ret = ThrowLogicError
    /\ n = 0
    /\ Len(mat_names) = 1

\* ------------------------------------------------------- the Matrix algebra
\* the last expression was an addition / a multiplication
LastWasAdd == lastop.op \in {"+", "+="}
LastWasMul == lastop.op \in {"*", "*="}

\* ------------------------------------------------------------------- C3
\* C3: for all a, b with a.cols = b.rows, operator* succeeds and returns
\* rows = a.rows, cols = b.cols and
\* cost = a.cost + b.cost + a.rows * a.cols * (2 * b.cols - 1).
C3_MultiplyResult ==
    (LastWasMul /\ lastop.a.ncol = lastop.b.nrow) =>
        /\ ~res.thrown
        /\ res.val.nrow = lastop.a.nrow
        /\ res.val.ncol = lastop.b.ncol
        /\ res.val.flops = lastop.a.flops + lastop.b.flops
                           + lastop.a.nrow * lastop.a.ncol * (2 * lastop.b.ncol - 1)

\* a product of two operands that both carry flops already, not square
C3_Witness ==
    /\ lastop.op = "*"
    /\ ~res.thrown
    /\ lastop.a.flops > 0
    /\ lastop.b.flops > 0
    /\ lastop.a.ncol # lastop.b.ncol
    /\ res.val.flops > lastop.a.flops + lastop.b.flops

\* ------------------------------------------------------------------- C4
\* C4: the own cost that a multiplication adds on top of a.cost + b.cost is
\* (2*a.cols - 1) operations per output cell times a.rows * b.cols output
\* cells, for every shape-compatible a, b.
C4_MultiplyOwnCostPerOutputCell ==
    (LastWasMul /\ lastop.a.ncol = lastop.b.nrow) =>
        /\ ~res.thrown
        /\ res.val.flops - lastop.a.flops - lastop.b.flops
              = lastop.a.nrow * lastop.b.ncol * (2 * lastop.a.ncol - 1)

\* ------------------------------------------------------------------- C5
\* C5: for all a, b of the same shape, operator+ succeeds and returns the
\* same shape with cost = a.cost + b.cost + rows * cols.
C5_AddResult ==
    (LastWasAdd /\ lastop.a.nrow = lastop.b.nrow /\ lastop.a.ncol = lastop.b.ncol) =>
        /\ ~res.thrown
        /\ res.val.nrow = lastop.a.nrow
        /\ res.val.ncol = lastop.a.ncol
        /\ res.val.flops = lastop.a.flops + lastop.b.flops
                           + lastop.a.nrow * lastop.a.ncol

\* a sum of two non-square operands that both carry flops already
C5_Witness ==
    /\ lastop.op = "+"
    /\ ~res.thrown
    /\ lastop.a.flops > 0
    /\ lastop.b.flops > 0
    /\ lastop.a.nrow # lastop.a.ncol
    /\ res.val.flops > lastop.a.flops + lastop.b.flops

\* ------------------------------------------------------------------- C6
\* C6: an addition fails with the dimension-mismatch error if and only if
\* a.rows # b.rows or a.cols # b.cols, a multiplication fails with it if and
\* only if a.cols # b.rows; in every other case the operation returns a value.
C6_DimensionMismatchIff ==
    /\ LastWasAdd =>
          /\ res.thrown <=> (lastop.a.nrow # lastop.b.nrow \/ lastop.a.ncol # lastop.b.ncol)
          /\ res.thrown => (res.what = "add: dimensions do not match" /\ res.val = NoMatrix)
          /\ ~res.thrown => res.val # NoMatrix
    /\ LastWasMul =>
          /\ res.thrown <=> (lastop.a.ncol # lastop.b.nrow)
          /\ res.thrown => (res.what = "mult: dimensions do not match" /\ res.val = NoMatrix)
          /\ ~res.thrown => res.val # NoMatrix

\* an addition of operands that differ in one dimension only has thrown
C6_Witness ==
    /\ LastWasAdd
    /\ res.thrown
    /\ lastop.a.nrow = lastop.b.nrow
    /\ lastop.a.ncol # lastop.b.ncol

\* ------------------------------------------------------------------- C7
\* C7: after any sequence of successful additions and multiplications
\* (+= and *= included) over values constructed with rows, cols >= 0, every
\* result has cost >= 0 and a cost no less than that of each operand.
C7_CostNeverDecreases ==
    (lastop.op # "none" /\ ~res.thrown) =>
        /\ res.val.flops >= 0
        /\ res.val.flops >= lastop.a.flops
        /\ res.val.flops >= lastop.b.flops

\* ------------------------------------------------------------------- C11
\* C11: for every valid chain the returned cost is <= the flops obtained by
\* multiplying the freshly constructed matrices strictly left to right, as
\* product_using_initializer_list computes them.
C11_CostAtMostLeftToRight ==
    (ReturnedForValidChain /\ AllFresh) =>
        LET p == product_using_initializer_list(mats) IN
        /\ ~p.out.thrown
        /\ ret.second <= get_flops(p.out.val)

\* a chain for which the returned cost is strictly below the left-to-right one
C11_Witness ==
    /\ ReturnedForValidChain /\ AllFresh
    /\ n >= 3
    /\ LET p == product_using_initializer_list(mats) IN
          ~p.out.thrown /\ ret.second < get_flops(p.out.val)

\* ------------------------------------------------------------------- C12
\* the cost of the window [lo, hi] split at kk, from the finished table
CandidateCost(lo, kk, hi) ==
    min_cost[lo][kk] + min_cost[kk + 1][hi]
    + mats[lo + 1].nrow * mats[kk + 1].ncol * (2 * mats[hi + 1].ncol - 1)

\* the split indices of [lo, hi] whose candidate cost is the least
CheapestSplits(lo, hi) ==
    { kk \in lo..(hi - 1) :
        \A other \in lo..(hi - 1) : CandidateCost(lo, kk, hi) <= CandidateCost(lo, other, hi) }

\* the least cost of multiplying ms[lo..hi] (1-based), over all groupings
BestCost(ms, lo, hi) == MinOf({ t.cost : t \in AllParenthesizations(ms, lo, hi) })

\* the smallest split m of ms[lo..hi] that reaches the least cost
SmallestBestSplit(ms, lo, hi) ==
    MinOf({ m \in lo..(hi - 1) :
              BestCost(ms, lo, m) + BestCost(ms, m + 1, hi)
              + ms[lo].nrow * ms[m].ncol * (2 * ms[hi].ncol - 1) = BestCost(ms, lo, hi) })

\* the windows (0-based) of the grouping that always splits at the smallest
\* cheapest index
RECURSIVE SmallestSplitSpans(_, _, _)
SmallestSplitSpans(ms, lo, hi) ==
    IF lo = hi THEN {}
    ELSE LET m == SmallestBestSplit(ms, lo, hi) IN
         {<<lo - 1, hi - 1>>} \cup SmallestSplitSpans(ms, lo, m)
                              \cup SmallestSplitSpans(ms, m + 1, hi)

\* C12: for every window [i, j] with i < j the recorded split index is the
\* smallest k in [i, j) whose candidate cost attains the minimum, so among
\* equally cheap parenthesizations the returned expression is the one made
\* of smallest-k splits.
C12_SmallestSplitKept ==
    ReturnedForValidChain =>
        /\ \A lo \in 0..(n - 1) : \A hi \in (lo + 1)..(n - 1) :
              min_index[lo][hi] = MinOf(CheapestSplits(lo, hi))
        /\ ReadBack(ret.first, mats, mat_names).spans = SmallestSplitSpans(mats, 1, n)

\* the whole chain has two equally cheap splits and the smaller one is kept
C12_Witness ==
    /\ ReturnedForValidChain
    /\ n >= 3
    /\ Cardinality(CheapestSplits(0, n - 1)) >= 2
    /\ min_index[0][n - 1] = MinOf(CheapestSplits(0, n - 1))
    /\ min_index[0][n - 1] > 0

\* ------------------------------------------------------------------- C16
\* C16: called with no matrices and no names, calc_optimal_mult_order
\* returns the pair ("", 0) and raises no error.
C16_EmptyChainReturnsEmptyPair ==
    (n = 0 /\ Len(mat_names) = 0 /\ pc # "check_sizes") =>
        /\ pc = "done"
        /\ ret = ReturnPair(<<>>, 0)

\* the call with no matrices and no names has returned
C16_Witness ==
    /\ n = 0
    /\ Len(mat_names) = 0
    /\ pc = "done"
    /\ ret.kind = "value"

\* ------------------------------------------------------------------- C17
\* C17: called with exactly one matrix, calc_optimal_mult_order returns
\* cost 0 and an expression that is exactly the supplied name, or "M1" when
\* no names are supplied, without parentheses or operator, whatever the shape.
C17_SingleMatrix ==
    (n = 1 /\ SizesOk /\ pc = "done") =>
        /\ ret.kind = "value"
        /\ ret.second = 0
        /\ ret.first = (IF Len(mat_names) = 0 THEN <<"M", "1">> ELSE mat_names[1])
        /\ CountChar(ret.first, "(") = 0
        /\ CountChar(ret.first, ")") = 0
        /\ CountChar(ret.first, "*") = 0

\* a single non-square matrix without a name came back as "M1"
C17_Witness ==
    /\ n = 1
    /\ pc = "done"
    /\ Len(mat_names) = 0
    /\ mats[1].nrow # mats[1].ncol
    /\ ret = ReturnPair(<<"M", "1">>, 0)

\* ------------------------------------------------------------------- C18
\* the labels the call is to use: the names, or "M" followed by i + 1
ExpectedLabels ==
    [p \in 1..n |-> IF Len(mat_names) = 0 THEN <<"M">> \o to_string(p) ELSE mat_names[p]]

\* C18: for every valid chain the call returns, with names and without, the
\* cost and the grouping that the shapes alone determine; the names only
\* label the positions, and without names position i is labelled "M"
\* followed by i + 1.
C18_NamesOnlyLabel ==
    ReturnedForValidChain =>
        LET e == ReadBack(ret.first, mats, mat_names) IN
        /\ e.ok
        /\ ret.second = BestCost(mats, 1, n)
        /\ e.spans = SmallestSplitSpans(mats, 1, n)
        /\ e.labels = ExpectedLabels

\* a chain of three or more matrices returned without names
C18_Witness ==
    /\ ReturnedForValidChain
    /\ n >= 3
    /\ Len(mat_names) = 0
    /\ ReadBack(ret.first, mats, mat_names).labels = ExpectedLabels

\* ------------------------------------------------------------------- C20
\* the call has ended: it returned, threw, or the process was aborted
Finished == pc \in {"done", "aborted"}

\* a variant of the call: the loop position (length, i, k) read as one
\* number, most significant first, above the render step and the end
Radix == n + 2
LoopRank(c1, c2, c3, c4, c5) == (((c1 * 2 + c2) * Radix + c3) * 2 + c4) * Radix + c5
TopRank == LoopRank(n + 1, 1, Radix - 1, 1, Radix - 1) + 2
TermMeasure ==
    CASE pc = "check_sizes" -> TopRank + 2
      [] pc = "check_adjacent" -> TopRank + 1
      [] pc = "length_loop" -> 2 + LoopRank(n + 1 - length, 1, 0, 0, 0)
      [] pc = "i_loop" -> 2 + LoopRank(n + 1 - length, 0, n - i, 1, 0)
      [] pc = "k_loop" -> 2 + LoopRank(n + 1 - length, 0, n - i, 0, n - k)
      [] pc = "render" -> 1
      [] OTHER -> 0

\* when the table is rendered every window [lo, hi] with lo < hi splits
\* inside itself, so both windows of the recursion are strictly smaller
RenderWindowsShrink ==
    pc = "render" =>
        \A lo \in 0..(n - 1) : \A hi \in (lo + 1)..(n - 1) :
            lo <= min_index[lo][hi] /\ min_index[lo][hi] < hi

\* C20: for every input that passes the preconditions the call terminates:
\* every step of the loops and of the render strictly lowers a non-negative
\* variant, a step is possible until the call has ended, and render(i, j)
\* with i < j recurses only on [i, k] and [k+1, j] with i <= k < j.
C20_Terminates ==
    /\ [][TermMeasure' < TermMeasure]_vars
    /\ [](TermMeasure >= 0)
    /\ [](Finished \/ ENABLED <<Next>>_vars)
    /\ []RenderWindowsShrink

\* a call on four or more matrices ran through all loops and returned
C20_Witness ==
    /\ ReturnedForValidChain
    /\ n >= 4
    /\ length = n + 1
    /\ TermMeasure = 0

\* ------------------------------------------------------------------- C13
\* the step applied a combining operator
Combined == nops' = nops + 1

\* C13: an addition or multiplication, failed or not, leaves both operands
\* as they were; acc += x and acc *= x that fail leave acc with the rows,
\* cols and cost it had, and when they succeed only acc changes, never x.
C13_OperandsUntouched ==
    [][ /\ (Combined /\ lastop'.op \in {"+", "*"}) =>
              /\ acc' = acc
              /\ x' = x
        /\ (Combined /\ lastop'.op \in {"+=", "*="}) =>
              /\ x' = x
              /\ res'.thrown => acc' = acc
              /\ ~res'.thrown => acc' = res'.val
      ]_vars

\* acc += x has thrown on an accumulator that carries flops, which it kept
C13_Witness ==
    /\ lastop.op = "+="
    /\ res.thrown
    /\ lastop.a.flops > 0
    /\ acc = lastop.a

\* ------------------------------------------------------- the blocks of checks
\* compile_time_checks, run_time_checks and main declare a few matrices and
\* compare what the operators and the fold helpers make of them.

\* the matrices a block declares: any shapes, freshly constructed
ArgLists ==
    UNION { [1..m -> { Matrix(r, c) : r \in ChainDims, c \in ChainDims }] : m \in 1..MaxArgs }

\* An expression over the declared matrices, in the order they are written,
\* as a postfix program: "x" takes the next matrix, "+" and "*" combine the
\* two values last produced.
IsProgram(s, m) ==
    /\ Cardinality({p \in 1..Len(s) : s[p] = "x"}) = m
    /\ \A q \in 1..Len(s) :
          Cardinality({p \in 1..q : s[p] = "x"}) > Cardinality({p \in 1..q : s[p] # "x"})

Programs ==
    [m \in 1..MaxArgs |-> { s \in [1..(2 * m - 1) -> {"x", "+", "*"}] : IsProgram(s, m) }]

\* the expression evaluated with the combined-counter Matrix
RECURSIVE RunCombined(_, _, _, _, _)
RunCombined(prog, pos, nxt, st, ms) ==
    IF pos > Len(prog) THEN Returned(st[Len(st)])
    ELSE IF prog[pos] = "x"
    THEN RunCombined(prog, pos + 1, nxt + 1,
                     Append(st, Matrix(ms[nxt].nrow, ms[nxt].ncol)), ms)
    ELSE LET a == st[Len(st) - 1]
             b == st[Len(st)]
             r == IF prog[pos] = "+" THEN operator_plus(a, b) ELSE operator_mul(a, b)
         IN  IF r.thrown THEN r
             ELSE RunCombined(prog, pos + 1, nxt,
                              Append(SubSeq(st, 1, Len(st) - 2), r.val), ms)

\* the same expression evaluated with the two-counter Matrix
RECURSIVE RunTwoCounter(_, _, _, _, _)
RunTwoCounter(prog, pos, nxt, st, ms) ==
    IF pos > Len(prog) THEN TcReturned(st[Len(st)])
    ELSE IF prog[pos] = "x"
    THEN RunTwoCounter(prog, pos + 1, nxt + 1,
                       Append(st, TwoCounterMatrix(ms[nxt].nrow, ms[nxt].ncol)), ms)
    ELSE LET a == st[Len(st) - 1]
             b == st[Len(st)]
             r == IF prog[pos] = "+" THEN tc_operator_plus(a, b) ELSE tc_operator_mul(a, b)
         IN  IF r.thrown THEN r
             ELSE RunTwoCounter(prog, pos + 1, nxt,
                                Append(SubSeq(st, 1, Len(st) - 2), r.val), ms)

\* A * (B * (C * ...)): the product grouped from the right
RECURSIVE product_right_to_left(_)
product_right_to_left(ms) ==
    IF Len(ms) = 1 THEN Returned(ms[1])
    ELSE LET r == product_right_to_left(Tail(ms)) IN
         IF r.thrown THEN r ELSE operator_mul(ms[1], r.val)

\* the values among outs that were returned
ReturnedValues(outs) ==
    LET kept == SelectSeq(outs, LAMBDA o : ~o.thrown) IN
    [p \in 1..Len(kept) |-> kept[p].val]

\* (A + B + C) against sum_using_initializer_list and sum_using_fold_expression
CheckSums ==
    /\ cmp.kind = "none"
    /\ cmp' = [kind |-> "sums",
               list |-> sum_using_initializer_list(args),
               fold |-> sum_using_fold_expression(args),
               chain |-> plus_assign_loop(args[1], args, 2)]
    /\ UNCHANGED args
    /\ UNCHANGED <<optVars, algVars, conVars>>

\* (A * B * C * D) against product_using_initializer_list and
\* product_using_fold_expression
CheckProducts ==
    /\ cmp.kind = "none"
    /\ cmp' = [kind |-> "products",
               list |-> product_using_initializer_list(args),
               fold |-> product_using_fold_expression(args),
               chain |-> mul_assign_loop(args[1], args, 2)]
    /\ UNCHANGED args
    /\ UNCHANGED <<optVars, algVars, conVars>>

\* operator== applied to every two of the values the block has made
CheckEquality ==
    /\ cmp.kind = "none"
    /\ LET vals == ReturnedValues(<<product_using_initializer_list(args).out,
                                    product_using_fold_expression(args).out,
                                    product_right_to_left(args),
                                    sum_using_initializer_list(args).out,
                                    Returned(args[1])>>)
       IN  cmp' = [kind |-> "equality",
                   vals |-> vals,
                   eq |-> [p \in 1..Len(vals) |->
                             [q \in 1..Len(vals) |-> operator_eq(vals[p], vals[q])]]]
    /\ UNCHANGED args
    /\ UNCHANGED <<optVars, algVars, conVars>>

\* one expression over the matrices, built with either variant of Matrix
CheckVariants ==
    /\ cmp.kind = "none"
    /\ \E prog \in Programs[Len(args)] :
          cmp' = [kind |-> "variants",
                  prog |-> prog,
                  one |-> RunCombined(prog, 1, 1, <<>>, args),
                  two |-> RunTwoCounter(prog, 1, 1, <<>>, args)]
    /\ UNCHANGED args
    /\ UNCHANGED <<optVars, algVars, conVars>>

\* the declared matrices all have one shape, as A(2, 5), B(2, 5), C(2, 5)
SameShape(ms) ==
    \A p \in 1..Len(ms) : ms[p].nrow = ms[1].nrow /\ ms[p].ncol = ms[1].ncol

\* the orders in which m operands can be written
Orders(m) == { f \in [1..m -> 1..m] : \A a \in 1..m, b \in 1..m : a # b => f[a] # f[b] }

\* the operands of the sums: each declared matrix as it is, or after it was
\* added to itself (as in C += A + B, where the right operand carries flops)
Operands(ms, twice) ==
    [p \in 1..Len(ms) |-> IF twice[p] THEN operator_plus(ms[p], ms[p]).val ELSE ms[p]]

\* same-shape operands summed left to right in every order they can be
\* written in, and A + B == B + A on the first two
CheckOrders ==
    /\ cmp.kind = "none"
    /\ SameShape(args)
    /\ \E twice \in [1..Len(args) -> BOOLEAN] :
          LET ops == Operands(args, twice)
              m == Len(ops)
          IN  cmp' = [kind |-> "orders",
                      ops |-> ops,
                      sums |-> { sum_using_fold_expression([p \in 1..m |-> ops[f[p]]])
                                   : f \in Orders(m) },
                      lists |-> { sum_using_initializer_list([p \in 1..m |-> ops[f[p]]])
                                    : f \in Orders(m) },
                      ab |-> operator_plus(ops[1], ops[m]),
                      ba |-> operator_plus(ops[m], ops[1])]
    /\ UNCHANGED args
    /\ UNCHANGED <<optVars, algVars, conVars>>

\* the product of the declared matrices in every grouping, as main prints
\* (((A * B) * C) * D), ((A * B) * (C * D)), ... , (A * (B * (C * D)))
CheckGroupings ==
    /\ cmp.kind = "none"
    /\ cmp' = [kind |-> "groupings",
               outs |-> { RunCombined(prog, 1, 1, <<>>, args) :
                            prog \in { q \in Programs[Len(args)] :
                                         \A p \in 1..Len(q) : q[p] # "+" } }]
    /\ UNCHANGED args
    /\ UNCHANGED <<optVars, algVars, conVars>>

\* calc_optimal_mult_order called on the declared chain and on the same
\* chain with matrices that were computed before and carry flops
CheckOptimizer ==
    /\ cmp.kind = "none"
    /\ AdjacentOk(args)
    /\ \E twice \in [1..Len(args) -> BOOLEAN], names \in {<<>>, Names(Len(args))},
          nd \in BOOLEAN :
          LET ops == Operands(args, twice) IN
          cmp' = [kind |-> "optimizer",
                  used |-> ops,
                  names |-> names,
                  fresh |-> calc_optimal_mult_order(args, names, nd),
                  ret |-> calc_optimal_mult_order(ops, names, nd)]
    /\ UNCHANGED args
    /\ UNCHANGED <<optVars, algVars, conVars>>

InitChecks ==
    /\ args \in ArgLists
    /\ cmp = [kind |-> "none"]
    /\ OptIdle
    /\ AlgIdle
    /\ ConIdle

NextChecks ==
    \/ CheckSums
    \/ CheckProducts
    \/ CheckEquality
    \/ CheckVariants
    \/ CheckOrders
    \/ CheckGroupings
    \/ CheckOptimizer

SpecChecks == InitChecks /\ [][NextChecks]_vars

\* ------------------------------------------------------------------- C14
\* C14: for every non-empty operand sequence the accumulator obtained by
\* acc = x_1 and then acc += x_k (acc *= x_k) for the rest equals, in rows,
\* cols and cost, the left fold ((x_1 + x_2) + ...) + x_m (with *), as do the
\* initializer-list and the fold-expression helpers; a fold that fails
\* fails at the same operand in every form.
C14_FoldsAgree ==
    cmp.kind \in {"sums", "products"} =>
        /\ cmp.chain = cmp.fold
        /\ cmp.list = cmp.fold

\* three operands whose product was made, with flops, by every form
C14_Witness ==
    /\ cmp.kind = "products"
    /\ Len(args) >= 3
    /\ ~cmp.fold.out.thrown
    /\ cmp.list = cmp.fold
    /\ args[1].nrow # args[3].ncol
    /\ get_flops(cmp.list.out.val) > 0

\* ------------------------------------------------------------------- C15
\* C15: operator== is true if and only if rows, cols and cost are pairwise
\* equal; hence it is reflexive, symmetric and transitive, and two values of
\* the same shape whose accumulated costs differ compare unequal.
C15_EqualityIsFieldwise ==
    cmp.kind = "equality" =>
        LET V == 1..Len(cmp.vals) IN
        /\ \A p \in V, q \in V :
              cmp.eq[p][q] <=> /\ cmp.vals[p].nrow = cmp.vals[q].nrow
                               /\ cmp.vals[p].ncol = cmp.vals[q].ncol
                               /\ cmp.vals[p].flops = cmp.vals[q].flops
        /\ \A p \in V : cmp.eq[p][p]
        /\ \A p \in V, q \in V : cmp.eq[p][q] => cmp.eq[q][p]
        /\ \A p \in V, q \in V, r \in V : (cmp.eq[p][q] /\ cmp.eq[q][r]) => cmp.eq[p][r]
        /\ \A p \in V, q \in V :
              (/\ cmp.vals[p].nrow = cmp.vals[q].nrow
               /\ cmp.vals[p].ncol = cmp.vals[q].ncol
               /\ cmp.vals[p].flops # cmp.vals[q].flops) => ~cmp.eq[p][q]

\* (A * B) * C and A * (B * C) have one shape, other flops, and are unequal
C15_Witness ==
    /\ cmp.kind = "equality"
    /\ Len(args) = 3
    /\ Len(cmp.vals) >= 3
    /\ cmp.vals[2].nrow = cmp.vals[3].nrow
    /\ cmp.vals[2].ncol = cmp.vals[3].ncol
    /\ cmp.vals[2].flops # cmp.vals[3].flops
    /\ ~cmp.eq[2][3]
    /\ cmp.eq[1][2]

\* ------------------------------------------------------------------- C19
\* C19: for every expression built from construction, addition and
\* multiplication the two-counter variant and the combined-counter variant
\* fail on the same inputs and, when they succeed, give the same shape with
\* add_ops + mult_ops equal to the combined variant's flops.
C19_VariantsAgree ==
    cmp.kind = "variants" =>
        /\ cmp.one.thrown <=> cmp.two.thrown
        /\ ~cmp.one.thrown =>
              /\ cmp.two.val.nrow = cmp.one.val.nrow
              /\ cmp.two.val.ncol = cmp.one.val.ncol
              /\ tc_get_flops(cmp.two.val) = get_flops(cmp.one.val)

\* an expression with a sum and a product succeeded in both variants
C19_Witness ==
    /\ cmp.kind = "variants"
    /\ \E p \in 1..Len(cmp.prog) : cmp.prog[p] = "+"
    /\ \E p \in 1..Len(cmp.prog) : cmp.prog[p] = "*"
    /\ ~cmp.one.thrown
    /\ ~cmp.two.thrown
    /\ cmp.two.val.add_ops > 0
    /\ cmp.two.val.mult_ops > 0
    /\ tc_get_flops(cmp.two.val) = get_flops(cmp.one.val)

\* ------------------------------------------------------------------- C21
\* call id has returned to its caller (a pair or an exception)
CallReturned(id) == frames[id].pc = "done"

\* what call id gives when it is the only call running
AloneResult(id) ==
    calc_optimal_mult_order(frames[id].mats, frames[id].mat_names, ndebug)

RECURSIVE SumFlops(_)
SumFlops(ms) == IF Len(ms) = 0 THEN 0 ELSE get_flops(ms[1]) + SumFlops(Tail(ms))

\* C22: operands of one shape summed left to right give, in every order of
\* the operands, the same rows, cols and total cost (the costs the operands
\* carried plus rows * cols for each addition), and a + b == b + a.
C22_SumOrderIrrelevant ==
    cmp.kind = "orders" =>
        LET m == Len(cmp.ops)
            total == Returned(Matrix3(cmp.ops[1].nrow, cmp.ops[1].ncol,
                                      SumFlops(cmp.ops)
                                      + (m - 1) * cmp.ops[1].nrow * cmp.ops[1].ncol))
        IN  /\ cmp.sums = {FoldOutcome(total, 0)}
            /\ cmp.lists = {FoldOutcome(total, 0)}
            /\ ~cmp.ab.thrown /\ ~cmp.ba.thrown
            /\ operator_eq(cmp.ab.val, cmp.ba.val)

\* three operands, of which exactly one carried flops, were summed in all
\* six orders
C22_Witness ==
    /\ cmp.kind = "orders"
    /\ Len(cmp.ops) = 3
    /\ Cardinality(Orders(3)) = 6
    /\ get_flops(cmp.ops[1]) > 0
    /\ get_flops(cmp.ops[2]) = 0
    /\ get_flops(cmp.ops[3]) = 0
    /\ Cardinality(cmp.sums) = 1
    /\ \A o \in cmp.sums : ~o.out.thrown /\ get_flops(o.out.val) > get_flops(cmp.ops[1])

\* ------------------------------------------------------------------- C23
\* min_cost and min_index exist: the call is in or past its loops
TablesAllocated == Len(mats) > 0 /\ DOMAIN min_cost = 0..(n - 1)

\* all windows have been computed for a chain that satisfies the adjacency
\* condition
DPFinished ==
    /\ TablesAllocated
    /\ AdjacentOk(mats)
    /\ pc \in {"render", "done"}

\* the step about to be taken assigns to min_cost[i][j]
AboutToWrite ==
    \/ pc = "i_loop" /\ i < n - length + 1
    \/ pc = "k_loop" /\ k < j

\* the recurrence at window [a, b] with the split the table names
SplitHolds(a, b) ==
    LET kk == min_index[a][b] IN
    /\ a <= kk /\ kk < b
    /\ min_cost[a][b] # INT_MAX
    /\ min_cost[a][b] = min_cost[a][kk] + min_cost[kk + 1][b]
                         + get_nrow(mats[a + 1]) * get_ncol(mats[kk + 1])
                           * (2 * get_ncol(mats[b + 1]) - 1)

\* C23: the loops assign only to entries [i][j] with i < j, so the diagonal
\* and the entries below it keep the 0 of their construction throughout;
\* and when the loops have ended on a valid chain every entry with i < j
\* holds a split k with i <= k < j and the cost
\* min_cost[i][k] + min_cost[k+1][j] + rows(i) * cols(k) * (2 * cols(j) - 1),
\* none being left at INT_MAX.
C23_TablesComplete ==
    /\ TablesAllocated =>
          /\ \A a \in 0..(n - 1) : \A b \in 0..a :
                min_cost[a][b] = 0 /\ min_index[a][b] = 0
          /\ AboutToWrite => (0 <= i /\ i < j /\ j <= n - 1)
    /\ DPFinished =>
          \A a \in 0..(n - 1) : \A b \in (a + 1)..(n - 1) : SplitHolds(a, b)

\* the loops have ended on four matrices and the table holds a split that
\* is not the first of its window
C23_Witness ==
    /\ DPFinished
    /\ pc = "render"
    /\ n = 4
    /\ min_index[0][3] > 0
    /\ min_index[1][3] = 2
    /\ \A a \in 0..3 : \A b \in (a + 1)..3 : SplitHolds(a, b)

\* ------------------------------------------------------------------- C24
\* the split loop of window [a, b] has ended (a window of one matrix has
\* none): its length is below the one in progress, or it is the length in
\* progress and the window loop is past a
WindowDone(a, b) ==
    \/ a = b
    \/ /\ TablesAllocated
       /\ \/ b - a + 1 < length
          \/ /\ b - a + 1 = length
             /\ pc \in {"i_loop", "k_loop"}
             /\ a < i

\* the windows above the diagonal
Windows == { w \in (0..(n - 1)) \X (0..(n - 1)) : w[1] < w[2] }

\* C24: the lengths are taken in increasing order, one after the other;
\* the two entries a split candidate reads belong to windows whose split
\* loop has ended; an entry of such a window is neither about to be
\* assigned nor changed by any later step; and the table is rendered, and a
\* pair returned for a non-empty chain, only when the split loop of every
\* window has ended.
C24_WindowsInOrder ==
    /\ [][length' = length \/ length' = length + 1
            \/ (pc = "check_adjacent" /\ length' = 2)]_vars
    /\ []((pc = "k_loop" /\ k < j) => (WindowDone(i, k) /\ WindowDone(k + 1, j)))
    /\ [](AboutToWrite => ~WindowDone(i, j))
    /\ [][\A w \in Windows :
            WindowDone(w[1], w[2]) =>
                /\ WindowDone(w[1], w[2])'
                /\ min_cost'[w[1]][w[2]] = min_cost[w[1]][w[2]]
                /\ min_index'[w[1]][w[2]] = min_index[w[1]][w[2]]]_vars
    /\ [](pc = "render" => \A w \in Windows : WindowDone(w[1], w[2]))
    /\ [][(ret' # ret /\ ret'.kind = "value" /\ n >= 1) => pc = "render"]_vars

\* the window [0, 3] is being split at 1, reading the finished windows
\* [0, 1] and [2, 3], while it is itself not finished
C24_Witness ==
    /\ pc = "k_loop"
    /\ n = 4
    /\ length = 4
    /\ i = 0
    /\ k = 1
    /\ WindowDone(0, 1) /\ WindowDone(2, 3)
    /\ ~WindowDone(0, 3)
    /\ min_cost[0][1] > 0 /\ min_cost[0][1] < INT_MAX

\* ------------------------------------------------------------------- C25
\* C25: for a chain whose adjacent shapes agree, the product in every full
\* parenthesization succeeds and has the rows of the first matrix and the
\* cols of the last, whatever flops the grouping has accumulated.
C25_GroupingsKeepShape ==
    (cmp.kind = "groupings" /\ AdjacentOk(args)) =>
        \A o \in cmp.outs :
            /\ ~o.thrown
            /\ get_nrow(o.val) = get_nrow(args[1])
            /\ get_ncol(o.val) = get_ncol(args[Len(args)])

\* a chain of MaxArgs matrices, the first not square, whose groupings do
\* not all cost the same flops
C25_Witness ==
    /\ cmp.kind = "groupings"
    /\ AdjacentOk(args)
    /\ Len(args) = MaxArgs
    /\ get_nrow(args[1]) # get_ncol(args[1])
    /\ Cardinality(cmp.outs) >= 2
    /\ \A o \in cmp.outs : ~o.thrown /\ get_nrow(o.val) = get_nrow(args[1])

\* ------------------------------------------------------------------- C26
\* the returned expression evaluated with operator* on the matrices given
EvaluatedFlops ==
    LET e == ReadBack(cmp.ret.first, cmp.used, cmp.names) IN
    IF e.ok /\ ~e.val.thrown THEN get_flops(e.val.val) ELSE -1

\* C26: a valid chain whose matrices carry accumulated flops gets the very
\* pair (expression, cost) that the chain of fresh matrices of the same
\* shapes and names gets, and the flops of the returned expression,
\* evaluated on the matrices given, exceed the returned cost by exactly the
\* sum of the flops the matrices carried.
C26_AccumulatedFlopsIgnored ==
    cmp.kind = "optimizer" =>
        /\ cmp.ret = cmp.fresh
        /\ cmp.ret.kind = "value"
        /\ EvaluatedFlops = cmp.ret.second + SumFlops(cmp.used)

\* a chain of three matrices, the first and the last carrying flops, got a
\* cost that is below the flops of its expression
C26_Witness ==
    /\ cmp.kind = "optimizer"
    /\ Len(cmp.used) = 3
    /\ get_flops(cmp.used[1]) > 0
    /\ get_flops(cmp.used[2]) = 0
    /\ get_flops(cmp.used[3]) > get_flops(cmp.used[1])
    /\ cmp.ret = cmp.fresh
    /\ cmp.ret.second > 0
    /\ EvaluatedFlops > cmp.ret.second

====
